---- MODULE Spec2Model ----
(***************************************************************************)
(* Bucket notification handlers of cmd/bucket-notification-handlers.go:    *)
(* PutBucketNotificationConfig, GetBucketNotificationHandler,              *)
(* ListenBucketNotificationHandler with AddBucketListenerConfig,           *)
(* RemoveBucketListenerConfig and sendBucketNotification.                  *)
(*                                                                         *)
(* Every call is a process whose position (pc) moves through the           *)
(* statements of the function; one action per statement that touches       *)
(* shared state (the bucket lock nsMutex, the object layer, the per-node   *)
(* event notifier).                                                        *)
(***************************************************************************)
EXTENDS Integers, Sequences, FiniteSets, TLC

\* ------------------------------------------------------------- bounds
\* Ticks of the clock in one keep-alive interval (globalSNSConnAlive).
KeepAliveTicks == 2
\* PutBucketNotificationConfig calls issued per bucket in one behaviour.
MaxCalls == 3
\* Longest listener sequence RemoveBucketListenerConfig is tried on.
MaxLen == 3

\* ------------------------------------------------------------- universe
Nodes == {"n1", "n2"}
Buckets == {"photos"}
\* notificationConfig values a client may put; EmptyCfg is &notificationConfig{}.
EmptyCfg == "empty"
Cfgs == {EmptyCfg, "cfgA", "cfgB"}
\* No notification.xml under the bucket's prefix.
Absent == "absent"
Putters == {"p1", "p2"}
Sessions == {"s1", "s2"}
Free == "free"

VARIABLES
    globalIsDistXL,   \* the deployment is distributed (multi-node)
    unreach,          \* nodes that currently do not answer peer RPCs
    ncfgStore,        \* bucket -> notification.xml in the object layer
    ncfgMem,          \* node -> bucket -> in-memory notification config
    lcfgStore,        \* bucket -> listener.json in the object layer
    lcfgMem,          \* node -> bucket -> cached listener sequence
    nsMutex,          \* bucket -> holder of the bucket lock, or Free
    listenerChans,    \* node -> set of [arn, ch]: registered channels
    chState,          \* session -> "none" | "open" | "closed" (nEventCh)
    put,              \* putter -> state of its PutBucketNotificationConfig call
    sess,             \* session -> state of its ListenBucketNotificationHandler
    gresp,            \* response of the GetBucketNotificationHandler being served
    ncalls,           \* history: bucket -> put calls issued so far
    missed,           \* history: bucket -> nodes the latest notification broadcast skipped
    lastDone,         \* history: bucket -> config of the latest successful put, "none" once another put is issued
    lfault            \* history: a listener persist failed or a listener broadcast skipped a peer

vars == <<globalIsDistXL, unreach, ncfgStore, ncfgMem, lcfgStore, lcfgMem,
          nsMutex, listenerChans, chState, put, sess, gresp,
          ncalls, missed, lastDone, lfault>>

\* The nodes of the deployment: one node unless distributed.
Peers == IF globalIsDistXL THEN Nodes ELSE {"n1"}

\* No response is being served.
None == [code |-> "none"]

\* What a read of bucket b's notification configuration yields to a client:
\* a missing notification.xml reads as the empty configuration.
Durable(b) == IF ncfgStore[b] = Absent THEN EmptyCfg ELSE ncfgStore[b]

\* The nodes an update issued on node n reaches: n itself and the peers that answer.
Reached(n) == {n} \cup (Peers \ unreach)

IdlePut == [pc |-> "idle", node |-> "n1", bucket |-> "photos", cfg |-> EmptyCfg, res |-> "none"]
IdleSess == [pc |-> "idle", node |-> "n1", bucket |-> "photos", arn |-> <<"n1", 0>>,
             lcfgs |-> <<>>, res |-> "none", elapsed |-> 0, frame |-> "none",
             found |-> TRUE]

Init ==
    /\ globalIsDistXL \in BOOLEAN
    /\ unreach = {}
    /\ ncfgStore = [b \in Buckets |-> Absent]
    /\ ncfgMem = [n \in Nodes |-> [b \in Buckets |-> EmptyCfg]]
    /\ lcfgStore = [b \in Buckets |-> <<>>]
    /\ lcfgMem = [n \in Nodes |-> [b \in Buckets |-> <<>>]]
    /\ nsMutex = [b \in Buckets |-> Free]
    /\ listenerChans = [n \in Nodes |-> {}]
    /\ chState = [s \in Sessions |-> "none"]
    /\ put = [p \in Putters |-> IdlePut]
    /\ sess = [s \in Sessions |-> IdleSess]
    /\ gresp = None
    /\ ncalls = [b \in Buckets |-> 0]
    /\ missed = [b \in Buckets |-> {}]
    /\ lastDone = [b \in Buckets |-> "none"]
    /\ lfault = FALSE

putVars == <<ncfgStore, ncfgMem, put, ncalls, missed, lastDone>>
listenVars == <<lcfgStore, lcfgMem, listenerChans, chState, sess, lfault>>
envVars == <<globalIsDistXL, unreach>>

\* ------------------------------------------------ PutBucketNotificationHandler
\* The handler rejects the request before PutBucketNotificationConfig is called:
\* no such bucket, missing Content-Length, unreadable body, malformed XML or a
\* configuration that fails validateNotificationConfig.
PutReject(p) ==
    /\ put[p].pc = "idle"
    /\ \E n \in Peers, b \in Buckets :
          put' = [put EXCEPT ![p] = [IdlePut EXCEPT !.node = n, !.bucket = b, !.res = "rejected"]]
    /\ put'[p] # put[p]
    /\ UNCHANGED <<ncfgStore, ncfgMem, ncalls, missed, lastDone, nsMutex, gresp>>
    /\ UNCHANGED listenVars /\ UNCHANGED envVars

\* The handler accepted the request and calls PutBucketNotificationConfig(bucket, &cfg).
PutStart(p) ==
    /\ put[p].pc = "idle"
    /\ \E n \in Peers, b \in Buckets, c \in Cfgs :
          /\ ncalls[b] < MaxCalls
          /\ put' = [put EXCEPT ![p] = [pc |-> "lock", node |-> n, bucket |-> b,
                                        cfg |-> c, res |-> "none"]]
          /\ ncalls' = [ncalls EXCEPT ![b] = @ + 1]
          /\ lastDone' = [lastDone EXCEPT ![b] = "none"]
    /\ UNCHANGED <<ncfgStore, ncfgMem, missed, nsMutex, gresp>>
    /\ UNCHANGED listenVars /\ UNCHANGED envVars

\* A PutLock that goes on without the bucket lock.
PutLockSkipped(p) ==
    /\ put[p].pc = "lock"
    /\ put' = [put EXCEPT ![p].pc = "persist"]
    /\ UNCHANGED <<ncfgStore, ncfgMem, ncalls, missed, lastDone, nsMutex, gresp>>
    /\ UNCHANGED listenVars /\ UNCHANGED envVars

\* nsMutex.Lock(bucket, "", opsID): blocks until the bucket lock is free.
PutLock(p) ==
    /\ put[p].pc = "lock"
    /\ nsMutex[put[p].bucket] = Free
    /\ nsMutex' = [nsMutex EXCEPT ![put[p].bucket] = p]
    /\ put' = [put EXCEPT ![p].pc = "persist"]
    /\ UNCHANGED <<ncfgStore, ncfgMem, ncalls, missed, lastDone, gresp>>
    /\ UNCHANGED listenVars /\ UNCHANGED envVars

\* A PutPersist that drops the error of persistNotificationConfig.
PutPersistErrorDropped(p) ==
    /\ put[p].pc = "persist"
    /\ \E ok \in BOOLEAN :
          /\ ncfgStore' = IF ok THEN [ncfgStore EXCEPT ![put[p].bucket] = put[p].cfg]
                                ELSE ncfgStore
          /\ put' = [put EXCEPT ![p].pc = "unlock"]
    /\ UNCHANGED <<ncfgMem, ncalls, missed, lastDone, nsMutex, gresp>>
    /\ UNCHANGED listenVars /\ UNCHANGED envVars

\* A PutPersist that goes on to the broadcast although persisting failed.
PutPersistIgnoringError(p) ==
    /\ put[p].pc = "persist"
    /\ \E ok \in BOOLEAN :
          /\ ncfgStore' = IF ok THEN [ncfgStore EXCEPT ![put[p].bucket] = put[p].cfg]
                                ELSE ncfgStore
          /\ put' = [put EXCEPT ![p].pc = "bcast", ![p].res = IF ok THEN "none" ELSE "err"]
    /\ UNCHANGED <<ncfgMem, ncalls, missed, lastDone, nsMutex, gresp>>
    /\ UNCHANGED listenVars /\ UNCHANGED envVars

\* A PutPersist whose error return does not run the Unlock (an Unlock that is
\* called at the end of the function instead of being deferred).
PutPersistLeakingLock(p) ==
    /\ put[p].pc = "persist"
    /\ \E ok \in BOOLEAN :
          IF ok
          THEN /\ ncfgStore' = [ncfgStore EXCEPT ![put[p].bucket] = put[p].cfg]
               /\ put' = [put EXCEPT ![p].pc = "bcast"]
          ELSE /\ ncfgStore' = ncfgStore
               /\ put' = [put EXCEPT ![p].pc = "idle", ![p].res = "err"]
    /\ UNCHANGED <<ncfgMem, ncalls, missed, lastDone, nsMutex, gresp>>
    /\ UNCHANGED listenVars /\ UNCHANGED envVars

\* err := persistNotificationConfig(bucket, ncfg, objAPI); on an error the call
\* returns it (through the deferred Unlock) without telling any server.
PutPersist(p) ==
    /\ put[p].pc = "persist"
    /\ \E ok \in BOOLEAN :
          IF ok
          THEN /\ ncfgStore' = [ncfgStore EXCEPT ![put[p].bucket] = put[p].cfg]
               /\ put' = [put EXCEPT ![p].pc = "bcast"]
          ELSE /\ ncfgStore' = ncfgStore
               /\ put' = [put EXCEPT ![p].pc = "unlock", ![p].res = "err"]
    /\ UNCHANGED <<ncfgMem, ncalls, missed, lastDone, nsMutex, gresp>>
    /\ UNCHANGED listenVars /\ UNCHANGED envVars

\* S3PeersUpdateBucketNotification(bucket, ncfg): every server that answers,
\* the local one included, sets its in-memory configuration of the bucket.
PutBroadcast(p) ==
    /\ put[p].pc = "bcast"
    /\ ncfgMem' = [n \in Nodes |->
                     IF n \in Reached(put[p].node)
                     THEN [ncfgMem[n] EXCEPT ![put[p].bucket] = put[p].cfg]
                     ELSE ncfgMem[n]]
    /\ missed' = [missed EXCEPT ![put[p].bucket] = Peers \ Reached(put[p].node)]
    /\ put' = [put EXCEPT ![p].pc = "unlock"]
    /\ UNCHANGED <<ncfgStore, ncalls, lastDone, nsMutex, gresp>>
    /\ UNCHANGED listenVars /\ UNCHANGED envVars

\* Another PutBucketNotificationConfig call on bucket b is between its start and its return.
OtherPutInProgress(p, b) ==
    \E q \in Putters \ {p} : put[q].pc # "idle" /\ put[q].bucket = b

\* defer nsMutex.Unlock(bucket, "", opsID), then the call returns err or nil.
PutUnlock(p) ==
    /\ put[p].pc = "unlock"
    /\ nsMutex' = [nsMutex EXCEPT ![put[p].bucket] = Free]
    /\ put' = [put EXCEPT ![p].pc = "idle",
                          ![p].res = IF put[p].res = "err" THEN "err" ELSE "ok"]
    /\ lastDone' = [lastDone EXCEPT ![put[p].bucket] =
                       IF put[p].res # "err" /\ ~OtherPutInProgress(p, put[p].bucket)
                       THEN put[p].cfg ELSE "none"]
    /\ UNCHANGED <<ncfgStore, ncfgMem, ncalls, missed, gresp>>
    /\ UNCHANGED listenVars /\ UNCHANGED envVars

\* ------------------------------------------------ GetBucketNotificationHandler
\* loadNotificationConfig(bucket, objAPI): the stored configuration,
\* errNoSuchNotifications when there is none, or the object layer's error.
LoadNotificationConfig(b, fault) ==
    IF fault THEN [err |-> "error", cfg |-> EmptyCfg]
    ELSE IF ncfgStore[b] = Absent THEN [err |-> "notfound", cfg |-> EmptyCfg]
    ELSE [err |-> "nil", cfg |-> ncfgStore[b]]

\* A response that treats errNoSuchNotifications like every other load error.
GetResponseStrict(b, ld) ==
    IF ld.err # "nil"
    THEN [code |-> "err", bucket |-> b, load |-> ld.err, cfg |-> EmptyCfg]
    ELSE [code |-> "ok", bucket |-> b, load |-> ld.err, cfg |-> ld.cfg]

\* The response for the outcome ld of the load: an error other than
\* errNoSuchNotifications is written as an error response; for
\* errNoSuchNotifications nConfig = &notificationConfig{} is written.
GetResponse(b, ld) ==
    IF ld.err # "nil" /\ ld.err # "notfound"
    THEN [code |-> "err", bucket |-> b, load |-> ld.err, cfg |-> EmptyCfg]
    ELSE [code |-> "ok", bucket |-> b, load |-> ld.err,
          cfg |-> IF ld.err = "notfound" THEN EmptyCfg ELSE ld.cfg]

\* A handler that answers from the serving node's in-memory configuration.
GetFromMemory(n, b) ==
    /\ gresp = None
    /\ n \in Peers
    /\ gresp' = [code |-> "ok", bucket |-> b, load |-> "nil", cfg |-> ncfgMem[n][b],
                 after |-> lastDone[b]]
    /\ UNCHANGED <<nsMutex>>
    /\ UNCHANGED putVars /\ UNCHANGED listenVars /\ UNCHANGED envVars

\* GetBucketNotificationHandler served by node n for bucket b. The response
\* remembers (after) the successful put it follows, if there is one.
GetBucketNotificationHandler(n, b) ==
    /\ gresp = None
    /\ n \in Peers
    /\ \E fault \in BOOLEAN :
          gresp' = GetResponse(b, LoadNotificationConfig(b, fault)) @@ [after |-> lastDone[b]]
    /\ UNCHANGED <<nsMutex>>
    /\ UNCHANGED putVars /\ UNCHANGED listenVars /\ UNCHANGED envVars

\* The client has read the response.
GetDone ==
    /\ gresp # None
    /\ gresp' = None
    /\ UNCHANGED <<nsMutex>>
    /\ UNCHANGED putVars /\ UNCHANGED listenVars /\ UNCHANGED envVars

\* ------------------------------------------------ peers
\* A peer stops answering RPCs (partition, crash of its RPC server).
PeerDown(n) ==
    /\ n \in Peers
    /\ unreach = {}
    /\ Cardinality(Peers) > 1
    /\ unreach' = {n}
    /\ UNCHANGED <<globalIsDistXL, nsMutex, gresp>>
    /\ UNCHANGED putVars /\ UNCHANGED listenVars

\* The peer answers again; nothing is replayed to it.
PeerUp(n) ==
    /\ n \in unreach
    /\ unreach' = unreach \ {n}
    /\ UNCHANGED <<globalIsDistXL, nsMutex, gresp>>
    /\ UNCHANGED putVars /\ UNCHANGED listenVars

\* ------------------------------------------------ ListenBucketNotificationHandler
\* The listenerConfig of session s: TopicARN is built from the nanosecond stamp and
\* the node's address, TargetServer is the node; owner stands for what else the
\* request put into the topic configuration (its events and filter rules).
\* A listenerConfig whose TargetServer is a fixed address instead of globalMinioAddr.
ListenerConfigFixedTarget(s) == [arn |-> sess[s].arn, target |-> "n1", owner |-> s]

ListenerConfigOf(s) == [arn |-> sess[s].arn, target |-> sess[s].node, owner |-> s]

\* The ARN already has a channel in node n's event notifier.
HasChan(n, arn) == \E e \in listenerChans[n] : e.arn = arn

\* The search without its break: the last entry whose TopicARN is arn wins.
LastMatch(seq, arn) ==
    IF \E k \in 1..Len(seq) : seq[k].arn = arn
    THEN CHOOSE k \in 1..Len(seq) :
            /\ seq[k].arn = arn
            /\ \A j \in (k + 1)..Len(seq) : seq[j].arn # arn
    ELSE 0

\* Index of the first entry of seq whose TopicARN is arn, 0 when there is none.
FirstMatch(seq, arn) ==
    IF \E k \in 1..Len(seq) : seq[k].arn = arn
    THEN CHOOSE k \in 1..Len(seq) :
            /\ seq[k].arn = arn
            /\ \A j \in 1..(k - 1) : seq[j].arn # arn
    ELSE 0

\* append(listenerCfgs[:k], listenerCfgs[k+1:]...), k counted from 1.
RemoveAt(seq, k) == SubSeq(seq, 1, k - 1) \o SubSeq(seq, k + 1, Len(seq))

\* The values time.Now().UTC().UnixNano() can have for a request that starts now:
\* a stamp no session holds, or the stamp of a session that started in the same
\* instant (it has registered its channel and done nothing since).
UsedStamps == {sess[x].arn[2] : x \in {y \in Sessions : sess[y].pc # "idle"}}
FreshStamp == IF UsedStamps = {} THEN 1
              ELSE 1 + (CHOOSE m \in UsedStamps : \A u \in UsedStamps : u <= m)
NowStamps == {FreshStamp} \cup {sess[x].arn[2] : x \in {y \in Sessions : sess[y].pc = "add_read"}}

\* A handler that makes and registers its channel before it validates the request.
ListenRejectAfterRegister(s) ==
    /\ sess[s].pc = "idle"
    /\ \E n \in Peers, b \in Buckets :
          /\ sess' = [sess EXCEPT ![s] = [IdleSess EXCEPT !.pc = "done", !.node = n,
                                      !.bucket = b, !.arn = <<n, FreshStamp>>,
                                      !.res = "rejected"]]
          /\ listenerChans' = [listenerChans EXCEPT ![n] =
                                  @ \cup {[arn |-> <<n, FreshStamp>>, ch |-> s]}]
    /\ chState' = [chState EXCEPT ![s] = "open"]
    /\ UNCHANGED <<lcfgStore, lcfgMem, lfault, nsMutex, gresp>>
    /\ UNCHANGED putVars /\ UNCHANGED envVars

\* The request fails validation (filter values, event names) or the bucket does
\* not exist: the handler writes the error and returns.
ListenReject(s) ==
    /\ sess[s].pc = "idle"
    /\ \E n \in Peers, b \in Buckets :
          sess' = [sess EXCEPT ![s] = [IdleSess EXCEPT !.pc = "done", !.node = n,
                                                       !.bucket = b, !.res = "rejected"]]
    /\ UNCHANGED <<lcfgStore, lcfgMem, listenerChans, chState, lfault, nsMutex, gresp>>
    /\ UNCHANGED putVars /\ UNCHANGED envVars

\* A handler that defers RemoveListenerChan before it calls AddListenerChan: the
\* request that fails on a collision unregisters the ARN on its way out.
ListenStartDeferFirst(s) ==
    /\ sess[s].pc = "idle"
    /\ \E n \in Peers, b \in Buckets, t \in NowStamps :
          LET arn == <<n, t>> IN
          /\ chState' = [chState EXCEPT ![s] = "open"]
          /\ IF HasChan(n, arn)
             THEN /\ sess' = [sess EXCEPT ![s] = [IdleSess EXCEPT !.pc = "rmchan", !.node = n,
                                 !.bucket = b, !.arn = arn, !.res = "conflict"]]
                  /\ listenerChans' = listenerChans
             ELSE /\ sess' = [sess EXCEPT ![s] = [IdleSess EXCEPT !.pc = "add_read", !.node = n,
                                 !.bucket = b, !.arn = arn]]
                  /\ listenerChans' = [listenerChans EXCEPT ![n] = @ \cup {[arn |-> arn, ch |-> s]}]
    /\ UNCHANGED <<lcfgStore, lcfgMem, lfault, nsMutex, gresp>>
    /\ UNCHANGED putVars /\ UNCHANGED envVars

\* The request is valid: the ARN is made from the current instant t and the node,
\* nEventCh is made, and AddListenerChan registers it unless the ARN has a channel.
ListenStart(s) ==
    /\ sess[s].pc = "idle"
    /\ \E n \in Peers, b \in Buckets, t \in NowStamps :
          LET arn == <<n, t>> IN
          /\ chState' = [chState EXCEPT ![s] = "open"]
          /\ IF HasChan(n, arn)
             THEN /\ sess' = [sess EXCEPT ![s] = [IdleSess EXCEPT !.pc = "close", !.node = n,
                                 !.bucket = b, !.arn = arn, !.res = "conflict"]]
                  /\ listenerChans' = listenerChans
             ELSE /\ sess' = [sess EXCEPT ![s] = [IdleSess EXCEPT !.pc = "add_read", !.node = n,
                                 !.bucket = b, !.arn = arn]]
                  /\ listenerChans' = [listenerChans EXCEPT ![n] = @ \cup {[arn |-> arn, ch |-> s]}]
    /\ UNCHANGED <<lcfgStore, lcfgMem, lfault, nsMutex, gresp>>
    /\ UNCHANGED putVars /\ UNCHANGED envVars

\* AddBucketListenerConfig: listenerCfgs := GetBucketListenerConfig(bucket) of the
\* local event notifier, with *lcfg appended. The bucket lock is not held yet.
AddRead(s) ==
    /\ sess[s].pc = "add_read"
    /\ sess' = [sess EXCEPT ![s].pc = "add_lock",
                            ![s].lcfgs = Append(lcfgMem[sess[s].node][sess[s].bucket],
                                                ListenerConfigOf(s))]
    /\ UNCHANGED <<lcfgStore, lcfgMem, listenerChans, chState, lfault, nsMutex, gresp>>
    /\ UNCHANGED putVars /\ UNCHANGED envVars

\* nsMutex.Lock(bucket, "", opsID) of AddBucketListenerConfig and of
\* RemoveBucketListenerConfig; at is the position, to the position after it.
ListenLock(s, at, to) ==
    /\ sess[s].pc = at
    /\ nsMutex[sess[s].bucket] = Free
    /\ nsMutex' = [nsMutex EXCEPT ![sess[s].bucket] = s]
    /\ sess' = [sess EXCEPT ![s].pc = to]
    /\ UNCHANGED <<lcfgStore, lcfgMem, listenerChans, chState, lfault, gresp>>
    /\ UNCHANGED putVars /\ UNCHANGED envVars

AddLock(s) == ListenLock(s, "add_lock", "add_persist")

\* An AddBucketListenerConfig that goes on to the broadcast although persisting failed.
AddPersistIgnoringError(s) ==
    /\ sess[s].pc = "add_persist"
    /\ \E ok \in BOOLEAN :
          /\ lcfgStore' = IF ok /\ globalIsDistXL
                           THEN [lcfgStore EXCEPT ![sess[s].bucket] = sess[s].lcfgs]
                           ELSE lcfgStore
          /\ sess' = [sess EXCEPT ![s].pc = "add_bcast", ![s].res = IF ok THEN "none" ELSE "err"]
          /\ lfault' = (lfault \/ ~ok)
    /\ UNCHANGED <<lcfgMem, listenerChans, chState, nsMutex, gresp>>
    /\ UNCHANGED putVars /\ UNCHANGED envVars

\* if globalIsDistXL { err := persistListenerConfig(bucket, listenerCfgs, objAPI) }:
\* on an error the function returns at once (to onErr); otherwise it goes on to the
\* broadcast (to onOk).
ListenPersist(s, at, onOk, onErr, errRes) ==
    /\ sess[s].pc = at
    /\ IF globalIsDistXL
       THEN \E ok \in BOOLEAN :
              IF ok
              THEN /\ lcfgStore' = [lcfgStore EXCEPT ![sess[s].bucket] = sess[s].lcfgs]
                   /\ sess' = [sess EXCEPT ![s].pc = onOk]
                   /\ lfault' = lfault
              ELSE /\ lcfgStore' = lcfgStore
                   /\ sess' = [sess EXCEPT ![s].pc = onErr, ![s].res = errRes]
                   /\ lfault' = TRUE
       ELSE /\ lcfgStore' = lcfgStore
            /\ sess' = [sess EXCEPT ![s].pc = onOk]
            /\ lfault' = lfault
    /\ UNCHANGED <<lcfgMem, listenerChans, chState, nsMutex, gresp>>
    /\ UNCHANGED putVars /\ UNCHANGED envVars

AddPersist(s) == ListenPersist(s, "add_persist", "add_bcast", "add_unlock", "err")

\* S3PeersUpdateBucketListener(bucket, listenerCfgs): every server that answers,
\* the local one included, replaces its cached sequence of the bucket.
ListenBroadcast(s, at, to) ==
    /\ sess[s].pc = at
    /\ lcfgMem' = [n \in Nodes |->
                     IF n \in Reached(sess[s].node)
                     THEN [lcfgMem[n] EXCEPT ![sess[s].bucket] = sess[s].lcfgs]
                     ELSE lcfgMem[n]]
    /\ lfault' = (lfault \/ (Peers \ Reached(sess[s].node)) # {})
    /\ sess' = [sess EXCEPT ![s].pc = to]
    /\ UNCHANGED <<lcfgStore, listenerChans, chState, nsMutex, gresp>>
    /\ UNCHANGED putVars /\ UNCHANGED envVars

AddBroadcast(s) == ListenBroadcast(s, "add_bcast", "add_unlock")

\* defer nsMutex.Unlock of AddBucketListenerConfig, then back in the handler: on an
\* error the handler returns (the deferred RemoveListenerChan runs next); otherwise
\* RemoveBucketListenerConfig is deferred and sendBucketNotification starts.
AddUnlock(s) ==
    /\ sess[s].pc = "add_unlock"
    /\ nsMutex' = [nsMutex EXCEPT ![sess[s].bucket] = Free]
    /\ sess' = [sess EXCEPT ![s].pc = IF sess[s].res = "err" THEN "rmchan" ELSE "select",
                            ![s].res = IF sess[s].res = "err" THEN "err" ELSE "added",
                            ![s].lcfgs = <<>>, ![s].elapsed = 0]
    /\ UNCHANGED <<lcfgStore, lcfgMem, listenerChans, chState, lfault, gresp>>
    /\ UNCHANGED putVars /\ UNCHANGED envVars

\* ------------------------------------------------ sendBucketNotification
\* Some node's dispatch finds a listener entry with the session's ARN and sends a
\* batch of events to the channel registered under it.
EventPending(s) ==
    \E n \in Peers : \E k \in 1..Len(lcfgMem[n][sess[s].bucket]) :
        lcfgMem[n][sess[s].bucket][k].arn = sess[s].arn

\* case events := <-arnListenerCh: a batch arrives before the timer fires.
SelectEvents(s) ==
    /\ sess[s].pc = "select"
    /\ sess[s].elapsed < KeepAliveTicks
    /\ EventPending(s)
    /\ sess' = [sess EXCEPT ![s].pc = "write", ![s].frame = "events"]
    /\ UNCHANGED <<lcfgStore, lcfgMem, listenerChans, chState, lfault, nsMutex, gresp>>
    /\ UNCHANGED putVars /\ UNCHANGED envVars

\* A timer case that writes nothing and waits again.
SelectTimeoutSilent(s) ==
    /\ sess[s].pc = "select"
    /\ sess[s].elapsed = KeepAliveTicks
    /\ sess' = [sess EXCEPT ![s].pc = "write", ![s].frame = "none"]
    /\ UNCHANGED <<lcfgStore, lcfgMem, listenerChans, chState, lfault, nsMutex, gresp>>
    /\ UNCHANGED putVars /\ UNCHANGED envVars

\* case <-time.After(globalSNSConnAlive): no batch arrived for the whole interval.
SelectTimeout(s) ==
    /\ sess[s].pc = "select"
    /\ sess[s].elapsed = KeepAliveTicks
    /\ sess' = [sess EXCEPT ![s].pc = "write", ![s].frame = "dummy"]
    /\ UNCHANGED <<lcfgStore, lcfgMem, listenerChans, chState, lfault, nsMutex, gresp>>
    /\ UNCHANGED putVars /\ UNCHANGED envVars

\* A writeNotification whose error is dropped when the frame is a heartbeat.
WriteNotificationLenient(s) ==
    /\ sess[s].pc = "write"
    /\ \E ok \in BOOLEAN :
          IF ok
          THEN sess' = [sess EXCEPT ![s].pc = "select", ![s].frame = "none", ![s].elapsed = 0]
          ELSE IF sess[s].frame = "dummy"
               THEN sess' = [sess EXCEPT ![s].pc = "select", ![s].frame = "none",
                                         ![s].elapsed = 0, ![s].res = "disconnected"]
               ELSE sess' = [sess EXCEPT ![s].pc = "rm_read", ![s].frame = "none",
                                         ![s].res = "disconnected"]
    /\ UNCHANGED <<lcfgStore, lcfgMem, listenerChans, chState, lfault, nsMutex, gresp>>
    /\ UNCHANGED putVars /\ UNCHANGED envVars

\* writeNotification(w, frame): when w.Write succeeds the loop selects again with a
\* new timer; on an error sendBucketNotification returns and the handler's deferred
\* calls run, RemoveBucketListenerConfig first.
WriteNotification(s) ==
    /\ sess[s].pc = "write"
    /\ \E ok \in BOOLEAN :
          IF ok
          THEN sess' = [sess EXCEPT ![s].pc = "select", ![s].frame = "none", ![s].elapsed = 0]
          ELSE sess' = [sess EXCEPT ![s].pc = "rm_read", ![s].frame = "none",
                                    ![s].res = "disconnected"]
    /\ UNCHANGED <<lcfgStore, lcfgMem, listenerChans, chState, lfault, nsMutex, gresp>>
    /\ UNCHANGED putVars /\ UNCHANGED envVars

\* One tick of the clock: the timer of every waiting select runs on.
Tick ==
    /\ \E s \in Sessions : sess[s].pc = "select" /\ sess[s].elapsed < KeepAliveTicks
    /\ sess' = [s \in Sessions |->
                  IF sess[s].pc = "select" /\ sess[s].elapsed < KeepAliveTicks
                  THEN [sess[s] EXCEPT !.elapsed = @ + 1] ELSE sess[s]]
    /\ UNCHANGED <<lcfgStore, lcfgMem, listenerChans, chState, lfault, nsMutex, gresp>>
    /\ UNCHANGED putVars /\ UNCHANGED envVars

\* ------------------------------------------------ RemoveBucketListenerConfig
\* A RemoveBucketListenerConfig without the "if !found return": when the ARN is
\* not in the sequence it goes on to persist and broadcast the sequence it read.
RemoveReadNoEarlyReturn(s) ==
    /\ sess[s].pc = "rm_read"
    /\ LET cur == lcfgMem[sess[s].node][sess[s].bucket]
           k == FirstMatch(cur, sess[s].arn)
       IN IF k = 0
          THEN sess' = [sess EXCEPT ![s].pc = "rm_lock", ![s].lcfgs = cur, ![s].found = FALSE]
          ELSE sess' = [sess EXCEPT ![s].pc = "rm_lock", ![s].lcfgs = RemoveAt(cur, k)]
    /\ UNCHANGED <<lcfgStore, lcfgMem, listenerChans, chState, lfault, nsMutex, gresp>>
    /\ UNCHANGED putVars /\ UNCHANGED envVars

\* listenerCfgs := GetBucketListenerConfig(bucket) and the search for the first
\* entry with the session's TopicARN, before the lock is taken; not found: return
\* (the session's found records the outcome of the search).
RemoveRead(s) ==
    /\ sess[s].pc = "rm_read"
    /\ LET cur == lcfgMem[sess[s].node][sess[s].bucket]
           k == FirstMatch(cur, sess[s].arn)
       IN IF k = 0
          THEN sess' = [sess EXCEPT ![s].pc = "rmchan", ![s].found = FALSE]
          ELSE sess' = [sess EXCEPT ![s].pc = "rm_lock", ![s].lcfgs = RemoveAt(cur, k)]
    /\ UNCHANGED <<lcfgStore, lcfgMem, listenerChans, chState, lfault, nsMutex, gresp>>
    /\ UNCHANGED putVars /\ UNCHANGED envVars

\* A RemoveBucketListenerConfig that goes on without the bucket lock.
RemoveLockSkipped(s) ==
    /\ sess[s].pc = "rm_lock"
    /\ sess' = [sess EXCEPT ![s].pc = "rm_persist"]
    /\ UNCHANGED <<lcfgStore, lcfgMem, listenerChans, chState, lfault, nsMutex, gresp>>
    /\ UNCHANGED putVars /\ UNCHANGED envVars

RemoveLock(s) == ListenLock(s, "rm_lock", "rm_persist")

\* A RemoveBucketListenerConfig that persists without looking at globalIsDistXL.
RemovePersistAlways(s) ==
    /\ sess[s].pc = "rm_persist"
    /\ \E ok \in BOOLEAN :
          IF ok
          THEN /\ lcfgStore' = [lcfgStore EXCEPT ![sess[s].bucket] = sess[s].lcfgs]
               /\ sess' = [sess EXCEPT ![s].pc = "rm_bcast"]
               /\ lfault' = lfault
          ELSE /\ lcfgStore' = lcfgStore
               /\ sess' = [sess EXCEPT ![s].pc = "rm_unlock", ![s].res = "disconnected"]
               /\ lfault' = TRUE
    /\ UNCHANGED <<lcfgMem, listenerChans, chState, nsMutex, gresp>>
    /\ UNCHANGED putVars /\ UNCHANGED envVars

RemovePersist(s) == ListenPersist(s, "rm_persist", "rm_bcast", "rm_unlock", "disconnected")

RemoveBroadcast(s) == ListenBroadcast(s, "rm_bcast", "rm_unlock")

\* defer nsMutex.Unlock of RemoveBucketListenerConfig.
RemoveUnlock(s) ==
    /\ sess[s].pc = "rm_unlock"
    /\ nsMutex' = [nsMutex EXCEPT ![sess[s].bucket] = Free]
    /\ sess' = [sess EXCEPT ![s].pc = "rmchan", ![s].lcfgs = <<>>]
    /\ UNCHANGED <<lcfgStore, lcfgMem, listenerChans, chState, lfault, gresp>>
    /\ UNCHANGED putVars /\ UNCHANGED envVars

\* A handler that does not defer RemoveListenerChan: it goes on to close(nEventCh)
\* with the channel still in the event notifier.
RemoveListenerChanSkipped(s) ==
    /\ sess[s].pc = "rmchan"
    /\ sess' = [sess EXCEPT ![s].pc = "close"]
    /\ UNCHANGED <<lcfgStore, lcfgMem, listenerChans, chState, lfault, nsMutex, gresp>>
    /\ UNCHANGED putVars /\ UNCHANGED envVars

\* defer globalEventNotifier.RemoveListenerChan(accountARN).
RemoveListenerChan(s) ==
    /\ sess[s].pc = "rmchan"
    /\ listenerChans' = [listenerChans EXCEPT ![sess[s].node] =
                            {e \in @ : e.arn # sess[s].arn}]
    /\ sess' = [sess EXCEPT ![s].pc = "close"]
    /\ UNCHANGED <<lcfgStore, lcfgMem, chState, lfault, nsMutex, gresp>>
    /\ UNCHANGED putVars /\ UNCHANGED envVars

\* defer close(nEventCh): the last deferred call; the handler has returned.
CloseChan(s) ==
    /\ sess[s].pc = "close"
    /\ chState' = [chState EXCEPT ![s] = "closed"]
    /\ sess' = [sess EXCEPT ![s].pc = "done"]
    /\ UNCHANGED <<lcfgStore, lcfgMem, listenerChans, lfault, nsMutex, gresp>>
    /\ UNCHANGED putVars /\ UNCHANGED envVars

\* ------------------------------------------------ specifications
NextPut ==
    \/ \E p \in Putters : PutReject(p)
    \/ \E p \in Putters : PutStart(p)
    \/ \E p \in Putters : PutLock(p)
    \/ \E p \in Putters : PutPersist(p)
    \/ \E p \in Putters : PutBroadcast(p)
    \/ \E p \in Putters : PutUnlock(p)
    \/ \E n \in Nodes, b \in Buckets : GetBucketNotificationHandler(n, b)
    \/ GetDone
    \/ \E n \in Nodes : PeerDown(n)
    \/ \E n \in Nodes : PeerUp(n)

NextListen ==
    \/ \E s \in Sessions : ListenReject(s)
    \/ \E s \in Sessions : ListenStart(s)
    \/ \E s \in Sessions : AddRead(s)
    \/ \E s \in Sessions : AddLock(s)
    \/ \E s \in Sessions : AddPersist(s)
    \/ \E s \in Sessions : AddBroadcast(s)
    \/ \E s \in Sessions : AddUnlock(s)
    \/ \E s \in Sessions : SelectEvents(s)
    \/ \E s \in Sessions : SelectTimeout(s)
    \/ \E s \in Sessions : WriteNotification(s)
    \/ Tick
    \/ \E s \in Sessions : RemoveRead(s)
    \/ \E s \in Sessions : RemoveLock(s)
    \/ \E s \in Sessions : RemovePersist(s)
    \/ \E s \in Sessions : RemoveBroadcast(s)
    \/ \E s \in Sessions : RemoveUnlock(s)
    \/ \E s \in Sessions : RemoveListenerChan(s)
    \/ \E s \in Sessions : CloseChan(s)
    \/ \E n \in Nodes : PeerDown(n)
    \/ \E n \in Nodes : PeerUp(n)

Next == NextPut \/ NextListen

\* Every handler of the file running together.
Spec == Init /\ [][Next]_vars

\* The notification-configuration handlers (put, get) and the peers. The listen
\* handler shares only nsMutex with them: it can delay PutLock, nothing else.
SpecPut == Init /\ [][NextPut]_vars

\* The three operations that take the bucket lock, running together with the
\* validation of their handlers: both listen sessions (rejected, or
\* AddBucketListenerConfig and RemoveBucketListenerConfig, with batches arriving
\* and writes failing, no heartbeat and no peer failure) and the requests of
\* putter p1 on node n1, rejected or putting cfgA (the value put does not matter
\* to the lock).
NextLock ==
    \/ \E s \in Sessions : ListenReject(s)
    \/ \E s \in Sessions : ListenStart(s)
    \/ \E s \in Sessions : AddRead(s)
    \/ \E s \in Sessions : AddLock(s)
    \/ \E s \in Sessions : AddPersist(s)
    \/ \E s \in Sessions : AddBroadcast(s)
    \/ \E s \in Sessions : AddUnlock(s)
    \/ \E s \in Sessions : SelectEvents(s)
    \/ \E s \in Sessions : WriteNotification(s)
    \/ \E s \in Sessions : RemoveRead(s)
    \/ \E s \in Sessions : RemoveLock(s)
    \/ \E s \in Sessions : RemovePersist(s)
    \/ \E s \in Sessions : RemoveBroadcast(s)
    \/ \E s \in Sessions : RemoveUnlock(s)
    \/ \E s \in Sessions : RemoveListenerChan(s)
    \/ \E s \in Sessions : CloseChan(s)
    \/ (PutReject("p1") /\ put'["p1"].node = "n1")
    \/ (PutStart("p1") /\ put'["p1"].cfg = "cfgA" /\ put'["p1"].node = "n1")
    \/ PutLock("p1")
    \/ PutPersist("p1")
    \/ PutBroadcast("p1")
    \/ PutUnlock("p1")

SpecLock == Init /\ [][NextLock]_vars

\* RemoveBucketListenerConfig on its own, called by session s1 on node n1 for each
\* of two TopicARNs, on every cached listener sequence of at most MaxLen entries
\* drawn from four ListenerConfigs, two per ARN (the same ARN with different
\* events and filters), in both deployments.
RemoveArns == {<<"n1", 1>>, <<"n1", 2>>}
RemoveEntries == {[arn |-> a, target |-> "n1", owner |-> o] : a \in RemoveArns, o \in Sessions}
RemoveSeqs == UNION {[1..m -> RemoveEntries] : m \in 0..MaxLen}

InitRemove ==
    /\ globalIsDistXL \in BOOLEAN
    /\ unreach = {}
    /\ ncfgStore = [b \in Buckets |-> Absent]
    /\ ncfgMem = [n \in Nodes |-> [b \in Buckets |-> EmptyCfg]]
    /\ \E seq \in RemoveSeqs :
          /\ lcfgStore = [b \in Buckets |-> IF globalIsDistXL THEN seq ELSE <<>>]
          /\ lcfgMem = [n \in Nodes |-> [b \in Buckets |-> IF n \in Peers THEN seq ELSE <<>>]]
    /\ nsMutex = [b \in Buckets |-> Free]
    /\ \E a \in RemoveArns :
          /\ listenerChans = [n \in Nodes |-> IF n = "n1" THEN {[arn |-> a, ch |-> "s1"]} ELSE {}]
          /\ sess = [s \in Sessions |->
                       IF s = "s1"
                       THEN [IdleSess EXCEPT !.pc = "rm_read", !.arn = a, !.res = "disconnected"]
                       ELSE IdleSess]
    /\ chState = [s \in Sessions |-> IF s = "s1" THEN "open" ELSE "none"]
    /\ put = [p \in Putters |-> IdlePut]
    /\ gresp = None
    /\ ncalls = [b \in Buckets |-> 0]
    /\ missed = [b \in Buckets |-> {}]
    /\ lastDone = [b \in Buckets |-> "none"]
    /\ lfault = FALSE

NextRemove ==
    \/ RemoveRead("s1")
    \/ RemoveLock("s1")
    \/ RemovePersist("s1")
    \/ RemoveBroadcast("s1")
    \/ RemoveUnlock("s1")
    \/ RemoveListenerChan("s1")
    \/ CloseChan("s1")

SpecRemove == InitRemove /\ [][NextRemove]_vars

\* The listen handler's sessions and the peers. The put handler shares only
\* nsMutex with them: it can delay AddLock and RemoveLock, nothing else.
SpecListen == Init /\ [][NextListen]_vars

\* ------------------------------------------------ properties
\* Both putters have returned from a call on bucket b, and these two calls are
\* the only PutBucketNotificationConfig calls ever issued on b.
BothReturned(b) ==
    /\ ncalls[b] = 2
    /\ \A p \in Putters :
          put[p].pc = "idle" /\ put[p].bucket = b /\ put[p].res \in {"ok", "err"}

\* C1 as stated: once two put calls on the same bucket have both returned, the
\* stored configuration is the input of one of them, never the value from before.
C1_AsStated ==
    \A b \in Buckets :
        BothReturned(b) => ncfgStore[b] \in {put[p].cfg : p \in Putters}

\* C1, amended: once two put calls on the same bucket have both returned, the
\* stored configuration is the input of one of the calls that returned success
\* (never a mix); it is the value from before the calls only when both failed.
C1_Linearized ==
    \A b \in Buckets :
        BothReturned(b) =>
            IF \E p \in Putters : put[p].res = "ok"
            THEN ncfgStore[b] \in {put[p].cfg : p \in {q \in Putters : put[q].res = "ok"}}
            ELSE ncfgStore[b] = Absent

C1_Witness ==
    \E b \in Buckets :
        /\ BothReturned(b)
        /\ \A p \in Putters : put[p].res = "ok"
        /\ put["p1"].cfg # put["p2"].cfg
        /\ ncfgStore[b] = put["p1"].cfg

\* No PutBucketNotificationConfig call on bucket b is between its start and its return.
NoPutInProgress(b) == \A p \in Putters : put[p].pc = "idle" \/ put[p].bucket # b

\* Every node's in-memory notification configuration of b is the stored one.
MemEqualsStore(b) == \A n \in Peers : ncfgMem[n][b] = Durable(b)

\* C2 as stated: whenever no put call is in progress on a bucket and all peers are
\* reachable, every node's in-memory configuration equals the stored one.
C2_AsStated ==
    \A b \in Buckets : (NoPutInProgress(b) /\ unreach = {}) => MemEqualsStore(b)

\* C2, amended: whenever no put call is in progress on a bucket and every peer was
\* reachable when the bucket's latest broadcast was sent (no node missed it), every
\* node's in-memory configuration equals the stored one, after any interleaving of
\* successful and failed put calls.
C2_MemoryConverges ==
    \A b \in Buckets : (NoPutInProgress(b) /\ missed[b] = {}) => MemEqualsStore(b)

C2_Witness ==
    \E b \in Buckets :
        /\ ncalls[b] = 2 /\ NoPutInProgress(b) /\ missed[b] = {}
        /\ globalIsDistXL
        /\ \E p \in Putters : put[p].res = "err"
        /\ \E p \in Putters : put[p].res = "ok"
        /\ ncfgStore[b] = "cfgA"
        /\ MemEqualsStore(b)

\* Session s is in the streaming loop of sendBucketNotification.
Streaming(s) == sess[s].pc \in {"select", "write"}

\* Some entry of seq has TopicARN arn.
HasArn(seq, arn) == \E k \in 1..Len(seq) : seq[k].arn = arn

\* Some entry of seq was added by session s.
HasOwner(seq, s) == \E k \in 1..Len(seq) : seq[k].owner = s

\* C3: when two listen sessions registered on the same bucket, both
\* AddBucketListenerConfig calls returned success and neither session has ended,
\* the bucket's listener sequence holds both ListenerConfigs on every node (no
\* persist failed and no peer was skipped).
C3_NoLostUpdate ==
    \A s \in Sessions, t \in Sessions :
        (s # t /\ Streaming(s) /\ Streaming(t) /\ sess[s].bucket = sess[t].bucket /\ ~lfault)
        => \A n \in Peers : HasOwner(lcfgMem[n][sess[s].bucket], s)

\* C4: once a session's streaming loop has exited and the handler has returned
\* (store and peers having been available throughout), its channel is not
\* registered on its node and no ListenerConfig with its ARN is in any node's
\* cached listener sequence.
C4_CleanedUp ==
    \A s \in Sessions :
        (sess[s].pc = "done" /\ sess[s].res = "disconnected" /\ ~lfault)
        => /\ ~HasChan(sess[s].node, sess[s].arn)
           /\ \A n \in Peers : ~HasArn(lcfgMem[n][sess[s].bucket], sess[s].arn)

\* The registration of session s failed: AddListenerChan rejected the ARN, or
\* persisting failed inside AddBucketListenerConfig.
RegistrationFailed(s) == sess[s].res \in {"conflict", "err"}

\* C5 as stated: after a handler whose registration failed has returned, its
\* channel is not registered, and no ListenerConfig for its destinationID is in the
\* durable store or in any node's cached sequence.
C5_AsStated ==
    \A s \in Sessions :
        (RegistrationFailed(s) /\ sess[s].pc = "done")
        => /\ \A e \in listenerChans[sess[s].node] : e.ch # s
           /\ ~HasArn(lcfgStore[sess[s].bucket], sess[s].arn)
           /\ \A n \in Peers : ~HasArn(lcfgMem[n][sess[s].bucket], sess[s].arn)

\* C5, amended: a handler whose registration failed never enters the streaming
\* loop and adds no ListenerConfig to the durable store or to any node's cached
\* sequence, and after it has returned its channel is not registered (on an ARN
\* collision the entry of the session that already holds the ARN stays).
C5_FailedRegistration ==
    \A s \in Sessions :
        RegistrationFailed(s)
        => /\ ~Streaming(s)
           /\ \A b \in Buckets : ~HasOwner(lcfgStore[b], s)
           /\ \A n \in Nodes, b \in Buckets : ~HasOwner(lcfgMem[n][b], s)
           /\ sess[s].pc = "done" => \A n \in Nodes : \A e \in listenerChans[n] : e.ch # s

C5_Witness ==
    \E s \in Sessions, t \in Sessions :
        /\ sess[s].pc = "done" /\ sess[s].res = "err"
        /\ sess[t].pc = "done" /\ sess[t].res = "conflict"

\* C6: a step of a put call whose persist failed leaves every node's in-memory
\* configuration as it was and makes no broadcast: from the failed persist the
\* call goes to the unlock and returns the error.
C6_PersistFailure ==
    [][\A p \in Putters :
          (put'[p] # put[p] /\ put'[p].res = "err")
          => /\ ncfgMem' = ncfgMem
             /\ ncfgStore' = ncfgStore
             /\ put'[p].pc \in {"unlock", "idle"}
             /\ put[p].pc = "unlock" => put'[p].pc = "idle"]_vars

C6_Witness ==
    \E p \in Putters, b \in Buckets :
        /\ put[p].pc = "idle" /\ put[p].res = "err" /\ put[p].bucket = b
        /\ ncalls[b] = 2
        /\ ncfgStore[b] = "cfgA" /\ put[p].cfg = "cfgB"
        /\ \A n \in Peers : ncfgMem[n][b] = "cfgA"

\* C7: a get that follows a successful put of cfg on the same bucket, with no
\* other put on the bucket issued or in progress in between, and that succeeds,
\* returns cfg, whichever node serves it.
C7_RoundTrip ==
    (gresp # None /\ gresp.code = "ok" /\ gresp.after # "none") => gresp.cfg = gresp.after

C7_Witness ==
    gresp # None /\ gresp.code = "ok" /\ gresp.after = "cfgB" /\ gresp.cfg = "cfgB"

\* C8: a get whose load found no stored configuration answers success with the
\* empty configuration; the answer is an error exactly when the load failed with
\* another error.
C8_NotFoundIsEmpty ==
    gresp # None =>
        /\ gresp.load = "notfound" => (gresp.code = "ok" /\ gresp.cfg = EmptyCfg)
        /\ gresp.code = "err" <=> gresp.load = "error"

C8_Witness ==
    gresp # None /\ gresp.load = "notfound" /\ gresp.code = "ok" /\ gresp.cfg = EmptyCfg

C10_ExitOnWriteFailure ==
    [][\A s \in Sessions :
          /\ (sess[s].pc = "write" /\ sess'[s] # sess[s])
             => \/ sess'[s].res = "disconnected" /\ sess'[s].pc = "rm_read"
                \/ sess'[s].res = "added" /\ sess'[s].pc = "select"
          /\ sess[s].res = "disconnected"
             => (sess'[s].res = "disconnected" /\ sess'[s].pc \notin {"select", "write"})
          /\ (Streaming(s) /\ ~Streaming(s)') => sess'[s].res = "disconnected"]_vars

C10_Witness ==
    \E s \in Sessions :
        sess[s].pc = "rm_read" /\ sess[s].res = "disconnected" /\ sess[s].frame = "none"

\* Putter p / session s is between its nsMutex.Lock and its nsMutex.Unlock.
PutCritical(p) == put[p].pc \in {"persist", "bcast", "unlock"}
ListenCritical(s) == sess[s].pc \in {"add_persist", "add_bcast", "add_unlock",
                                     "rm_persist", "rm_bcast", "rm_unlock"}

\* The operations that are between persist and the end of the broadcast on bucket b.
Writers(b) ==
    {p \in Putters : PutCritical(p) /\ put[p].bucket = b}
    \cup {s \in Sessions : ListenCritical(s) /\ sess[s].bucket = b}

PutReturns(p) == put[p].pc # "idle" /\ put'[p].pc = "idle" /\ put'[p].res # "rejected"
AddReturns(s) ==
    /\ sess[s].pc \in {"add_read", "add_lock", "add_persist", "add_bcast", "add_unlock"}
    /\ sess'[s].pc \in {"select", "rmchan"}
RemoveReturns(s) ==
    /\ sess[s].pc \in {"rm_read", "rm_lock", "rm_persist", "rm_bcast", "rm_unlock"}
    /\ sess'[s].pc = "rmchan"

\* This step releases the lock that operation x holds on bucket b.
Releases(x, b) == nsMutex[b] = x /\ nsMutex'[b] = Free

ListenerEntries(b) ==
    {lcfgStore[b][k] : k \in 1..Len(lcfgStore[b])}
    \cup UNION {{lcfgMem[n][b][k] : k \in 1..Len(lcfgMem[n][b])} : n \in Nodes}

\* C13: the TopicARN of a ListenerConfig of a bucket (stored or cached on any
\* node) has a channel in the event notifier of at most one node, and a node
\* where it has one is the TargetServer of the ListenerConfig.
C13_ChannelOnTargetOnly ==
    \A b \in Buckets : \A e \in ListenerEntries(b) :
        /\ \A n \in Nodes : HasChan(n, e.arn) => n = e.target
        /\ Cardinality({n \in Nodes : HasChan(n, e.arn)}) <= 1

C13_Witness ==
    \E b \in Buckets : \E e \in ListenerEntries(b), f \in ListenerEntries(b) :
        /\ e.target = "n2" /\ HasChan("n2", e.arn) /\ HasArn(lcfgMem["n1"][b], e.arn)
        /\ f.target = "n1" /\ HasChan("n1", f.arn) /\ HasArn(lcfgMem["n2"][b], f.arn)
        /\ e.arn[2] = f.arn[2]

\* The ARN of session s is registered on its node for the channel of another
\* session, and that channel is open.
OtherChanRegisteredOpen(s) ==
    \E e \in listenerChans[sess[s].node] :
        e.arn = sess[s].arn /\ e.ch # s /\ chState[e.ch] = "open"

\* C14: a handler whose AddListenerChan failed on a collision goes straight to
\* its return (only close(nEventCh) is left to run); none of its steps changes
\* the event notifier's channels, the stored or cached listener sequences, the
\* bucket lock or another session's channel, and the channel that was registered
\* under the ARN is still registered and open when the handler has returned,
\* unless its own handler has unregistered it in the meantime.
C14_CollisionAborts ==
    [][\A s \in Sessions :
          (sess'[s].res = "conflict" /\ sess'[s] # sess[s])
          => /\ listenerChans' = listenerChans
             /\ lcfgStore' = lcfgStore /\ lcfgMem' = lcfgMem
             /\ nsMutex' = nsMutex
             /\ \A t \in Sessions \ {s} : chState'[t] = chState[t]
             /\ sess[s].pc = "idle" => (sess'[s].pc = "close" /\ OtherChanRegisteredOpen(s)')
             /\ sess[s].pc # "idle" => (sess[s].pc = "close" /\ sess'[s].pc = "done")
             /\ (sess[s].pc # "idle" /\ OtherChanRegisteredOpen(s))
                   => OtherChanRegisteredOpen(s)']_vars

C14_Witness ==
    \E s \in Sessions :
        /\ sess[s].res = "conflict" /\ sess[s].pc = "done" /\ chState[s] = "closed"
        /\ OtherChanRegisteredOpen(s)
        /\ \E t \in Sessions \ {s} : Streaming(t) /\ sess[t].arn = sess[s].arn

\* What a rejected request must leave alone: the registered channels and the
\* channels themselves, the bucket locks, the stored and the cached notification
\* and listener configurations.
EffectVars == <<listenerChans, chState, nsMutex, ncfgStore, ncfgMem, lcfgStore, lcfgMem>>

\* C15: the step in which ListenBucketNotificationHandler or
\* PutBucketNotificationHandler rejects a request (validation failure or no such
\* bucket) registers no channel, takes no lock, writes nothing durable and
\* broadcasts nothing, and the handler has returned: a rejected session has no
\* channel and a rejected request holds no lock.
C15_RejectedNoEffect ==
    /\ [](\A s \in Sessions :
             sess[s].res = "rejected"
             => /\ sess[s].pc = "done" /\ chState[s] = "none"
                /\ \A n \in Nodes : \A e \in listenerChans[n] : e.ch # s
                /\ \A b \in Buckets : nsMutex[b] # s)
    /\ [](\A p \in Putters :
             put[p].res = "rejected"
             => /\ put[p].pc = "idle"
                /\ \A b \in Buckets : nsMutex[b] # p)
    /\ [][/\ \A s \in Sessions :
                (sess'[s] # sess[s] /\ sess'[s].res = "rejected")
                => UNCHANGED EffectVars
          /\ \A p \in Putters :
                (put'[p] # put[p] /\ put'[p].res = "rejected")
                => UNCHANGED EffectVars]_vars

C15_Witness ==
    \E s \in Sessions, t \in Sessions :
        /\ sess[s].res = "rejected"
        /\ put["p1"].res = "rejected"
        /\ sess[t].pc = "add_bcast" /\ nsMutex[sess[t].bucket] = t
        /\ sess[s].bucket = sess[t].bucket /\ put["p1"].bucket = sess[t].bucket
        /\ ncalls[sess[t].bucket] = 1

\* C16: a RemoveBucketListenerConfig whose TopicARN is not in the sequence it
\* reads returns at once: the step changes neither listener.json nor any node's
\* cached sequence nor the lock nor the registered channels, sets no error, and
\* the call never gets to the lock, the persist or the broadcast; only a call
\* that finds its ARN goes on to the lock.
C16_RemoveAbsentIsNoOp ==
    /\ [](\A s \in Sessions :
             sess[s].pc \in {"rm_lock", "rm_persist", "rm_bcast", "rm_unlock"}
             => sess[s].found)
    /\ [][\A s \in Sessions :
             (sess[s].pc = "rm_read" /\ sess'[s] # sess[s])
             => IF HasArn(lcfgMem[sess[s].node][sess[s].bucket], sess[s].arn)
                THEN sess'[s].pc = "rm_lock" /\ sess'[s].found
                ELSE /\ sess'[s] = [sess[s] EXCEPT !.pc = "rmchan", !.found = FALSE]
                     /\ UNCHANGED <<lcfgStore, lcfgMem, nsMutex, lfault,
                                    listenerChans, chState>>]_vars

C16_Witness ==
    \E s \in Sessions :
        /\ sess[s].pc = "done" /\ sess[s].res = "disconnected" /\ ~ sess[s].found
        /\ ~ HasArn(lcfgMem[sess[s].node][sess[s].bucket], sess[s].arn)
        /\ \E n \in Nodes : HasArn(lcfgMem[n][sess[s].bucket], sess[s].arn)

\* C17: on a single node listener.json is never written (it stays as it was at
\* the start) and every add and remove that took the lock goes on to the
\* broadcast, which puts its sequence into the node's cached sequence; with
\* several nodes a broadcast is sent only when listener.json holds the very
\* sequence being broadcast (the write before it succeeded), and a failed write
\* leads to the unlock with no broadcast.
C17_PersistOnlyWhenDistributed ==
    /\ [](~ globalIsDistXL => \A b \in Buckets : lcfgStore[b] = <<>>)
    /\ [](\A s \in Sessions :
             (globalIsDistXL /\ sess[s].pc \in {"add_bcast", "rm_bcast"})
             => lcfgStore[sess[s].bucket] = sess[s].lcfgs)
    /\ [][\A s \in Sessions :
             /\ (~ globalIsDistXL /\ sess[s].pc \in {"add_persist", "rm_persist"}
                      /\ sess'[s] # sess[s])
                => sess'[s].pc \in {"add_bcast", "rm_bcast"}
             /\ (sess[s].pc \in {"add_bcast", "rm_bcast"} /\ sess'[s] # sess[s])
                => lcfgMem'[sess[s].node][sess[s].bucket] = sess[s].lcfgs
             /\ (globalIsDistXL /\ sess[s].pc \in {"add_persist", "rm_persist"}
                      /\ sess'[s] # sess[s] /\ lcfgStore'[sess[s].bucket] # sess[s].lcfgs)
                => (sess'[s].pc \in {"add_unlock", "rm_unlock"} /\ lcfgMem' = lcfgMem)
             /\ lcfgMem' # lcfgMem
                => \E t \in Sessions :
                      /\ sess[t].pc \in {"add_bcast", "rm_bcast"} /\ sess'[t] # sess[t]
                      /\ globalIsDistXL => lcfgStore[sess[t].bucket] = sess[t].lcfgs]_vars

C17_Witness ==
    \E s \in Sessions, t \in Sessions :
        /\ ~ globalIsDistXL
        /\ sess[s].pc = "done" /\ sess[s].res = "disconnected" /\ sess[s].found
        /\ Streaming(t)
        /\ lcfgMem["n1"][sess[t].bucket] = <<ListenerConfigOf(t)>>
        /\ lcfgStore[sess[t].bucket] = <<>>

\* r is seq with exactly its first entry whose TopicARN is arn deleted, the other
\* entries in their order.
IsFirstMatchRemoved(r, seq, arn) ==
    \E k \in 1..Len(seq) :
        /\ seq[k].arn = arn
        /\ \A j \in 1..(k - 1) : seq[j].arn # arn
        /\ Len(r) = Len(seq) - 1
        /\ \A j \in 1..(k - 1) : r[j] = seq[j]
        /\ \A j \in k..Len(r) : r[j] = seq[j + 1]

\* C18: for every cached sequence and TopicARN with a match, what
\* RemoveBucketListenerConfig persists to listener.json and what it broadcasts
\* to every node is the sequence it read (still the cached one, the call being
\* alone) with exactly the first matching entry deleted and all other entries,
\* later ones with the same ARN too, kept in order.
C18_FirstMatchOnly ==
    [][\A s \in Sessions :
          LET read == lcfgMem[sess[s].node][sess[s].bucket] IN
          /\ (sess[s].pc = "rm_read" /\ sess'[s].pc = "rm_lock")
             => IsFirstMatchRemoved(sess'[s].lcfgs, read, sess[s].arn)
          /\ (sess[s].pc = "rm_persist" /\ sess'[s].pc = "rm_bcast" /\ globalIsDistXL)
             => IsFirstMatchRemoved(lcfgStore'[sess[s].bucket], read, sess[s].arn)
          /\ (sess[s].pc = "rm_bcast" /\ sess'[s].pc = "rm_unlock")
             => \A n \in Peers :
                   IsFirstMatchRemoved(lcfgMem'[n][sess[s].bucket], read, sess[s].arn)]_vars

C18_Witness ==
    /\ sess["s1"].pc = "rm_unlock" /\ sess["s1"].found
    /\ Len(sess["s1"].lcfgs) = 2
    /\ sess["s1"].lcfgs[1].arn # sess["s1"].arn
    /\ sess["s1"].lcfgs[2].arn = sess["s1"].arn
    /\ \A n \in Nodes : lcfgMem[n]["photos"] = sess["s1"].lcfgs
    /\ lcfgStore["photos"] = sess["s1"].lcfgs

\* C19: on every node, each ListenerConfig of the cached sequence whose
\* TargetServer is that node has a channel registered under its TopicARN in the
\* node's event notifier.
C19_CachedEntryHasChannel ==
    \A n \in Nodes : \A b \in Buckets : \A k \in 1..Len(lcfgMem[n][b]) :
        lcfgMem[n][b][k].target = n => HasChan(n, lcfgMem[n][b][k].arn)

\* The channel of session s is in some node's event notifier.
Registered(s) == \E n \in Nodes : \E e \in listenerChans[n] : e.ch = s

\* C20: every channel in an event notifier is open; a session's channel is open
\* from its registration to the end of RemoveBucketListenerConfig and of
\* RemoveListenerChan; and the step that closes a channel is the handler's last,
\* taken when the channel is in no event notifier.
C20_CloseAfterUnregister ==
    /\ [](\A s \in Sessions : Registered(s) => chState[s] = "open")
    /\ [](\A s \in Sessions :
             sess[s].pc \in {"add_read", "add_lock", "add_persist", "add_bcast", "add_unlock",
                             "select", "write", "rm_read", "rm_lock", "rm_persist",
                             "rm_bcast", "rm_unlock", "rmchan"}
             => chState[s] = "open")
    /\ [][\A s \in Sessions :
             (chState'[s] = "closed" /\ chState[s] # "closed")
             => /\ ~ Registered(s) /\ ~ Registered(s)'
                /\ sess[s].pc = "close" /\ sess'[s].pc = "done"
                /\ \A b \in Buckets : nsMutex[b] # s]_vars

C20_Witness ==
    \E s \in Sessions, t \in Sessions :
        /\ sess[s].pc = "done" /\ sess[s].res = "disconnected" /\ sess[s].found
        /\ chState[s] = "closed" /\ ~ Registered(s)
        /\ sess[t].node = sess[s].node /\ Streaming(t) /\ Registered(t)
        /\ chState[t] = "open"
====
